---- MODULE Spec2Model ----
(***************************************************************************)
(* A model of the woollib thesis store ("sweater"): content-addressed      *)
(* theses kept in a chest (an object store with secondary indexes), and    *)
(* the operations of its write and read transactions.                      *)
(*                                                                         *)
(* Values.  A Rust Option is a sequence of length 0 or 1.  A string is a   *)
(* TLA+ string.  A stored object is the JSON value of a Thesis.            *)
(*                                                                         *)
(* ObjectIds.  xxh3_128 is taken to be collision free and otherwise        *)
(* unknown.  The ObjectIds are 1..MaxIds; `sources` lists the byte strings *)
(* whose hash has been used as a key so far, and ObjectId i is the hash of *)
(* sources[i].  A byte string not yet listed hashes to an id that is not   *)
(* in use, and is listed under it when its thesis is stored.  A text may   *)
(* name an id before anything with that id is stored.                      *)
(*                                                                         *)
(* Parsers.  The second half of the module models what reads the texts of  *)
(* a batch: Text::new with the aliases resolver, and the iterator over the *)
(* commands of a batch.  There a string is a sequence of characters.       *)
(***************************************************************************)
EXTENDS Naturals, Sequences, FiniteSets, TLC

VARIABLES
    sources,  \* the byte strings hashed into keys so far: ObjectId i = xxh3_128(sources[i])
    chest,    \* the chest's objects: ObjectId -> JSON value of a Thesis
    last,     \* the last operation called on the write transaction and its outcome
    previously_added_theses, \* what a client that checks its writes expects to read back
    input,         \* what Text::new, CommandsIterator::new or GraphGenerator::new is given
    known_aliases, \* AliasesResolver::known_aliases: the aliases bound in the batch so far
    iterator,      \* the CommandsIterator or the GraphGenerator, as its fields stand
    yielded        \* what next has returned on that iterator so far, in order

\* the state of the parsers; the transactions of the store leave it alone
parsers_vars == <<input, known_aliases, iterator, yielded>>

vars == <<sources, chest, last, previously_added_theses, parsers_vars>>

(***************************************************************************)
(* Bounds of the model.                                                    *)
(***************************************************************************)
\* the ObjectIds are 1..MaxIds
MaxIds == 3
\* the most references of an inserted text
MaxRefs == 1
\* the most tags of an inserted thesis
MaxTags == 1
\* the most tag_thesis calls a checking client makes on one thesis
MaxAdded == 2
\* the most tags of a thesis inserted into the store of two texts
MaxPairTags == 2

None == <<>>
Some(x) == <<x>>

SeqsUpTo(S, n) == UNION {[1..k -> S] : k \in 0..n}

RECURSIVE concat(_)
\* Vec<String>::concat
concat(list) == IF list = <<>> THEN "" ELSE Head(list) \o concat(Tail(list))

RECURSIVE SetToSeq(_)
\* the members of a finite set, each once, in the order an index scan gives
SetToSeq(S) ==
    IF S = {} THEN <<>>
    ELSE LET x == CHOOSE y \in S : TRUE IN <<x>> \o SetToSeq(S \ {x})

Range(s) == {s[i] : i \in 1..Len(s)}

(***************************************************************************)
(* Content and its id (content.rs, text.rs, relation.rs, thesis.rs).       *)
(***************************************************************************)
IsText(content) == "Text" \in DOMAIN content
IsRelation(content) == "Relation" \in DOMAIN content

\* the text form of an ObjectId (22 base64 characters in the program)
to_base64(id) == ToString(id)

\* Text::composed: the parts and the bracketed references, interleaved
composed(text) ==
    LET ref(i) == "[" \o to_base64(text.references[i]) \o "]"
        result_list ==
            IF text.start_with_reference
            THEN [reference_index \in 1..Len(text.references) |->
                    IF reference_index <= Len(text.raw_text_parts)
                    THEN ref(reference_index) \o text.raw_text_parts[reference_index]
                    ELSE ref(reference_index)]
            ELSE [part_index \in 1..Len(text.raw_text_parts) |->
                    IF part_index <= Len(text.references)
                    THEN text.raw_text_parts[part_index] \o ref(part_index)
                    ELSE text.raw_text_parts[part_index]]
    IN  concat(result_list)

\* bincode of a Relation: the two fixed-width ids, then the kind
encode_to_vec(relation) ==
    "<" \o to_base64(relation.from) \o "|" \o to_base64(relation.to)
        \o "|" \o relation.kind \o ">"

\* the bytes Content::id hashes
source_of(content) ==
    IF IsText(content)
    THEN composed(content.Text)
    ELSE encode_to_vec(content.Relation)

\* xxh3_128 given the hashes in use: the id listed for the bytes, else the
\* next id not in use
xxh3_128(known, bytes) ==
    IF \E i \in 1..Len(known) : known[i] = bytes
    THEN CHOOSE i \in 1..Len(known) : known[i] = bytes
    ELSE Len(known) + 1

\* Content::id
Content_id(known, content) == xxh3_128(known, source_of(content))

\* an id computed from the alias as well as the content
Thesis_id_with_alias(known, thesis) ==
    xxh3_128(known, source_of(thesis.content) \o concat(thesis.alias))

\* Thesis::id
Thesis_id(known, thesis) == Content_id(known, thesis.content)

(***************************************************************************)
(* The JSON value of a thesis (serde).                                     *)
(***************************************************************************)
JsonNull == <<"null">>
JsonString(s) == <<"string", s>>

\* serde_json::to_value(thesis)
to_value(thesis) ==
    [alias |-> IF thesis.alias = None THEN JsonNull ELSE JsonString(thesis.alias[1]),
     content |-> thesis.content,
     tags |-> thesis.tags]

\* serde_json::from_value::<Thesis>
from_value(value) ==
    [alias |-> IF value.alias = JsonNull THEN None ELSE Some(value.alias[2]),
     content |-> value.content,
     tags |-> value.tags]

(***************************************************************************)
(* The chest, as the transactions use it.                                  *)
(***************************************************************************)
contains_object_with_id(c, id) == id \in DOMAIN c

\* chest.get(id, path): None when there is no such object
chest_get(c, id) == IF id \in DOMAIN c THEN Some(c[id]) ELSE None

insert_with_id(c, id, value) ==
    [x \in DOMAIN c \cup {id} |-> IF x = id THEN value ELSE c[x]]

\* chest.remove(id, []): the object goes, and with it its index records
remove_object(c, id) == [x \in DOMAIN c \ {id} |-> c[x]]

\* select on the Direct index over content.Relation.from
select_from(c, id) ==
    {x \in DOMAIN c : IsRelation(c[x].content) /\ c[x].content.Relation.from = id}

\* select on the Direct index over content.Relation.to
select_to(c, id) ==
    {x \in DOMAIN c : IsRelation(c[x].content) /\ c[x].content.Relation.to = id}

\* select on the Array index over content.Text.references
select_references(c, id) ==
    {x \in DOMAIN c : IsText(c[x].content) /\ id \in Range(c[x].content.Text.references)}

\* select on the Direct index over alias
select_alias(c, alias) == {x \in DOMAIN c : c[x].alias = JsonString(alias)}

(***************************************************************************)
(* Read transaction methods (read_transaction.rs).                         *)
(***************************************************************************)
get_thesis(c, thesis_id) ==
    IF chest_get(c, thesis_id) # None THEN Some(from_value(chest_get(c, thesis_id)[1]))
    ELSE None

get_thesis_id_by_alias(c, alias) ==
    LET found == SetToSeq(select_alias(c, alias))
    IN  IF found = <<>> THEN None ELSE Some(Head(found))

\* where_referenced without the scan of the relations' to
where_referenced_without_to(c, thesis_id) ==
    SetToSeq(select_references(c, thesis_id)) \o SetToSeq(select_from(c, thesis_id))

\* where_referenced without the scan of the texts' references
where_referenced_relations_only(c, thesis_id) ==
    SetToSeq(select_from(c, thesis_id)) \o SetToSeq(select_to(c, thesis_id))

where_referenced(c, thesis_id) ==
    SetToSeq(select_references(c, thesis_id))
        \o SetToSeq(select_from(c, thesis_id))
        \o SetToSeq(select_to(c, thesis_id))

get_alias_by_thesis_id(c, thesis_id) ==
    IF chest_get(c, thesis_id) # None
    THEN from_value(chest_get(c, thesis_id)[1]).alias
    ELSE None

(***************************************************************************)
(* Write transaction methods (write_transaction.rs).  Each gives the chest *)
(* it leaves and the Result it returns.                                    *)
(***************************************************************************)
supported_relations_kinds == {"supports"}

Ok == <<"Ok">>
ErrDuplicate == <<"Err", "chest already contains object with such id">>
ErrUnsupportedKind == <<"Err", "kind is not supported">>
ErrMissing(related_id) == <<"Err", "without inserted thesis with", to_base64(related_id)>>

\* insert_thesis without the check for an object with the same id
insert_thesis_overwrite(known, c, thesis) ==
    [chest |-> insert_with_id(c, Thesis_id(known, thesis), to_value(thesis)),
     result |-> Ok]

\* insert_thesis that does not look at the kind of a relation
insert_thesis_of_any_kind(known, c, thesis) ==
    LET thesis_id == Thesis_id(known, thesis) IN
    IF contains_object_with_id(c, thesis_id)
    THEN [chest |-> c, result |-> ErrDuplicate]
    ELSE IF IsRelation(thesis.content)
              /\ chest_get(c, thesis.content.Relation.from) = None
    THEN [chest |-> c, result |-> ErrMissing(thesis.content.Relation.from)]
    ELSE IF IsRelation(thesis.content)
              /\ chest_get(c, thesis.content.Relation.to) = None
    THEN [chest |-> c, result |-> ErrMissing(thesis.content.Relation.to)]
    ELSE [chest |-> insert_with_id(c, thesis_id, to_value(thesis)), result |-> Ok]

\* insert_thesis that looks for the from of a relation only
insert_thesis_checking_from_only(known, c, thesis) ==
    LET thesis_id == Thesis_id(known, thesis) IN
    IF contains_object_with_id(c, thesis_id)
    THEN [chest |-> c, result |-> ErrDuplicate]
    ELSE IF IsRelation(thesis.content)
              /\ thesis.content.Relation.kind \notin supported_relations_kinds
    THEN [chest |-> c, result |-> ErrUnsupportedKind]
    ELSE IF IsRelation(thesis.content)
              /\ chest_get(c, thesis.content.Relation.from) = None
    THEN [chest |-> c, result |-> ErrMissing(thesis.content.Relation.from)]
    ELSE [chest |-> insert_with_id(c, thesis_id, to_value(thesis)), result |-> Ok]

\* insert_thesis that looks for `to` before `from` and for both before the kind
insert_thesis_to_before_from(known, c, thesis) ==
    LET thesis_id == Thesis_id(known, thesis) IN
    IF contains_object_with_id(c, thesis_id)
    THEN [chest |-> c, result |-> ErrDuplicate]
    ELSE IF IsRelation(thesis.content)
              /\ chest_get(c, thesis.content.Relation.to) = None
    THEN [chest |-> c, result |-> ErrMissing(thesis.content.Relation.to)]
    ELSE IF IsRelation(thesis.content)
              /\ chest_get(c, thesis.content.Relation.from) = None
    THEN [chest |-> c, result |-> ErrMissing(thesis.content.Relation.from)]
    ELSE IF IsRelation(thesis.content)
              /\ thesis.content.Relation.kind \notin supported_relations_kinds
    THEN [chest |-> c, result |-> ErrUnsupportedKind]
    ELSE [chest |-> insert_with_id(c, thesis_id, to_value(thesis)), result |-> Ok]

insert_thesis(known, c, thesis) ==
    LET thesis_id == Thesis_id(known, thesis) IN
    IF contains_object_with_id(c, thesis_id)
    THEN [chest |-> c, result |-> ErrDuplicate]
    ELSE IF IsRelation(thesis.content)
              /\ thesis.content.Relation.kind \notin supported_relations_kinds
    THEN [chest |-> c, result |-> ErrUnsupportedKind]
    ELSE IF IsRelation(thesis.content)
              /\ chest_get(c, thesis.content.Relation.from) = None
    THEN [chest |-> c, result |-> ErrMissing(thesis.content.Relation.from)]
    ELSE IF IsRelation(thesis.content)
              /\ chest_get(c, thesis.content.Relation.to) = None
    THEN [chest |-> c, result |-> ErrMissing(thesis.content.Relation.to)]
    ELSE [chest |-> insert_with_id(c, thesis_id, to_value(thesis)), result |-> Ok]

\* chest.contains_element(id, ["tags"], tag)
\* contains_element that never finds the element
contains_element_never(c, id, tag) == FALSE

contains_element(c, id, tag) == id \in DOMAIN c /\ tag \in Range(c[id].tags)

\* push with a path that ends in the content instead of the tags
push_wrong_path(c, id, tag) ==
    IF id \in DOMAIN c
    THEN [c EXCEPT ![id].content.Text.raw_text_parts = Append(@, tag)]
    ELSE c

\* chest.push(id, ["tags"], tag)
push(c, id, tag) ==
    IF id \in DOMAIN c THEN [c EXCEPT ![id].tags = Append(@, tag)] ELSE c

\* tag_thesis without the check for the tag being there already
tag_thesis_always_push(c, thesis_id, tag) ==
    [chest |-> push(c, thesis_id, tag), result |-> Ok]

tag_thesis(c, thesis_id, tag) ==
    IF ~contains_element(c, thesis_id, tag)
    THEN [chest |-> push(c, thesis_id, tag), result |-> Ok]
    ELSE [chest |-> c, result |-> Ok]

\* chest.get_element_index(id, ["tags"], tag): the first index holding tag
\* get_element_index that gives the index of the last occurrence
get_element_index_of_last(c, id, tag) ==
    IF id \in DOMAIN c /\ tag \in Range(c[id].tags)
    THEN Some(CHOOSE i \in 1..Len(c[id].tags) :
                /\ c[id].tags[i] = tag
                /\ \A j \in (i + 1)..Len(c[id].tags) : c[id].tags[j] # tag)
    ELSE None

get_element_index(c, id, tag) ==
    IF contains_element(c, id, tag)
    THEN Some(CHOOSE i \in 1..Len(c[id].tags) :
                /\ c[id].tags[i] = tag
                /\ \A j \in 1..(i - 1) : c[id].tags[j] # tag)
    ELSE None

\* chest.remove(id, ["tags", index])
remove_element(c, id, index) ==
    [c EXCEPT ![id].tags =
        [k \in 1..(Len(@) - 1) |-> IF k < index THEN @[k] ELSE @[k + 1]]]

untag_thesis(c, thesis_id, tag) ==
    LET tag_index_in_array == get_element_index(c, thesis_id, tag) IN
    IF tag_index_in_array # None
    THEN [chest |-> remove_element(c, thesis_id, tag_index_in_array[1]), result |-> Ok]
    ELSE [chest |-> c, result |-> Ok]

\* update that writes the alias and empties the tags
update_alias_clearing_tags(c, id, value) ==
    IF id \in DOMAIN c THEN [c EXCEPT ![id].alias = value, ![id].tags = <<>>] ELSE c

\* chest.update(id, ["alias"], value)
\* update that writes nothing
update_alias_nothing(c, id, value) == c

update_alias(c, id, value) ==
    IF id \in DOMAIN c THEN [c EXCEPT ![id].alias = value] ELSE c

set_alias(c, thesis_id, new_alias) ==
    [chest |-> update_alias(c, thesis_id, JsonString(new_alias)), result |-> Ok]

\* every relation of the chest, whatever it touches
relations_ids_of_any(c, thesis_id) ==
    SetToSeq({x \in DOMAIN c : IsRelation(c[x].content)})

\* the relations touching thesis_id: the from-index scan chained with the to-index scan
relations_ids_of(c, thesis_id) ==
    SetToSeq(select_from(c, thesis_id)) \o SetToSeq(select_to(c, thesis_id))

\* for relation_id in relations_ids { chest.remove(relation_id, []) }
remove_relations(c, relations_ids) ==
    [x \in DOMAIN c \ Range(relations_ids) |-> c[x]]

\* remove_thesis_and_relations that leaves the object itself in the chest
remove_thesis_keeping_object(c, thesis_id) ==
    remove_relations(c, relations_ids_of(c, thesis_id))

\* the chest once remove_thesis has deleted thesis_id and the relations touching it
remove_thesis_and_relations(c, thesis_id) ==
    LET c1 == remove_object(c, thesis_id)
    IN  remove_relations(c1, relations_ids_of(c1, thesis_id))

RECURSIVE remove_thesis(_, _)
RECURSIVE remove_each(_, _)

\* a top-level remove_thesis is followed for at most this many calls
MaxCalls == MaxIds * (MaxIds + 1) + 1

\* remove_thesis that does not look whether the thesis is stored
remove_thesis_unchecked(st, thesis_id) ==
    IF st.calls >= MaxCalls THEN [st EXCEPT !.exhausted = TRUE]
    ELSE LET entered == [st EXCEPT !.calls = @ + 1]
             c2 == remove_thesis_and_relations(entered.chest, thesis_id)
         IN  remove_each([entered EXCEPT !.chest = c2], where_referenced(c2, thesis_id))

\* remove_thesis on a run st = [chest, calls, exhausted]: calls counts the calls
\* of remove_thesis made so far, and a run that needs more than MaxCalls of
\* them is cut off with exhausted set
remove_thesis(st, thesis_id) ==
    IF st.calls >= MaxCalls THEN [st EXCEPT !.exhausted = TRUE]
    ELSE LET entered == [st EXCEPT !.calls = @ + 1] IN
         IF contains_object_with_id(entered.chest, thesis_id)
         THEN LET c2 == remove_thesis_and_relations(entered.chest, thesis_id)
                  where_mentioned == where_referenced(c2, thesis_id)
              IN  remove_each([entered EXCEPT !.chest = c2], where_mentioned)
         ELSE entered

\* for id in where_mentioned { self.remove_thesis(id)? }
remove_each(st, where_mentioned) ==
    IF where_mentioned = <<>> \/ st.exhausted THEN st
    ELSE remove_each(remove_thesis(st, Head(where_mentioned)), Tail(where_mentioned))

(***************************************************************************)
(* The calls a client makes on a write transaction.                        *)
(***************************************************************************)
Aliases == {"a"}
Tags == {"x"}
Kinds == {"supports", "likes"}
Ids == 1..MaxIds

BaseText == [raw_text_parts |-> <<"a">>, references |-> <<>>, start_with_reference |-> FALSE]

TextInputs ==
    {[Text |-> [BaseText EXCEPT !.references = r]] : r \in SeqsUpTo(Ids, MaxRefs)}

RelationInputs ==
    {[Relation |-> [from |-> f, to |-> t, kind |-> k]] : f \in Ids, t \in Ids, k \in Kinds}

OptionalAliases == {None} \cup {Some(a) : a \in Aliases}

\* the theses a client may pass to insert_thesis: contents, aliases and tags
ThesisInputs(contents, aliases, tags) ==
    {[alias |-> al, content |-> co, tags |-> tg] :
        al \in aliases, co \in contents, tg \in tags}

NoCall ==
    [op |-> "new", id |-> 0, alias |-> None, tag |-> None,
     result |-> Ok, calls |-> 0, exhausted |-> FALSE]

Init ==
    /\ sources = <<>>
    /\ chest = <<>>
    /\ last = NoCall
    /\ previously_added_theses = <<>>
    /\ input = <<>>
    /\ known_aliases = <<>>
    /\ iterator = [paragraphs_iterator |-> <<>>, aliases |-> <<>>]
    /\ yielded = <<>>

InsertThesis(thesis) ==
    LET thesis_id == Thesis_id(sources, thesis)
        r == insert_thesis(sources, chest, thesis)
    IN  /\ r.result = Ok => thesis_id <= MaxIds
        /\ sources' = IF r.result = Ok /\ thesis_id > Len(sources)
                      THEN Append(sources, source_of(thesis.content))
                      ELSE sources
        /\ chest' = r.chest
        /\ last' = [NoCall EXCEPT !.op = "insert_thesis", !.id = thesis_id,
                                  !.alias = thesis.alias, !.result = r.result]

TagThesis(thesis_id, tag) ==
    LET r == tag_thesis(chest, thesis_id, tag) IN
    /\ chest' = r.chest
    /\ last' = [NoCall EXCEPT !.op = "tag_thesis", !.id = thesis_id,
                              !.tag = Some(tag), !.result = r.result]
    /\ UNCHANGED sources

UntagThesis(thesis_id, tag) ==
    LET r == untag_thesis(chest, thesis_id, tag) IN
    /\ chest' = r.chest
    /\ last' = [NoCall EXCEPT !.op = "untag_thesis", !.id = thesis_id,
                              !.tag = Some(tag), !.result = r.result]
    /\ UNCHANGED sources

SetAlias(thesis_id, new_alias) ==
    LET r == set_alias(chest, thesis_id, new_alias) IN
    /\ chest' = r.chest
    /\ last' = [NoCall EXCEPT !.op = "set_alias", !.id = thesis_id,
                              !.alias = Some(new_alias), !.result = r.result]
    /\ UNCHANGED sources

RemoveThesis(thesis_id) ==
    LET r == remove_thesis([chest |-> chest, calls |-> 0, exhausted |-> FALSE], thesis_id) IN
    /\ chest' = r.chest
    /\ last' = [NoCall EXCEPT !.op = "remove_thesis", !.id = thesis_id,
                              !.calls = r.calls, !.exhausted = r.exhausted]
    /\ UNCHANGED sources

\* The store and its aliases: theses are inserted without tags.
Next ==
    \/ \E thesis \in ThesisInputs(TextInputs \cup RelationInputs, OptionalAliases, {<<>>}) :
            InsertThesis(thesis) /\ UNCHANGED <<previously_added_theses, parsers_vars>>
    \/ \E thesis_id \in Ids, new_alias \in Aliases :
            SetAlias(thesis_id, new_alias) /\ UNCHANGED <<previously_added_theses, parsers_vars>>
    \/ \E thesis_id \in Ids :
            RemoveThesis(thesis_id) /\ UNCHANGED <<previously_added_theses, parsers_vars>>

Spec == Init /\ [][Next]_vars

\* Every operation of the write transaction, on a store of texts.
AllInputs == ThesisInputs(TextInputs, OptionalAliases, SeqsUpTo(Tags, MaxTags))

NextAll ==
    \/ \E thesis \in AllInputs :
            InsertThesis(thesis) /\ UNCHANGED <<previously_added_theses, parsers_vars>>
    \/ \E thesis_id \in Ids, tag \in Tags :
            TagThesis(thesis_id, tag) /\ UNCHANGED <<previously_added_theses, parsers_vars>>
    \/ \E thesis_id \in Ids, tag \in Tags :
            UntagThesis(thesis_id, tag) /\ UNCHANGED <<previously_added_theses, parsers_vars>>
    \/ \E thesis_id \in Ids, new_alias \in Aliases :
            SetAlias(thesis_id, new_alias) /\ UNCHANGED <<previously_added_theses, parsers_vars>>
    \/ \E thesis_id \in Ids :
            RemoveThesis(thesis_id) /\ UNCHANGED <<previously_added_theses, parsers_vars>>

SpecAll == Init /\ [][NextAll]_vars

(***************************************************************************)
(* Properties.                                                             *)
(***************************************************************************)
\* the ids a stored value points at: a text's references, a relation's ends
PointsAt(value) ==
    IF IsText(value.content)
    THEN Range(value.content.Text.references)
    ELSE {value.content.Relation.from, value.content.Relation.to}

\* C1: every stored relation has from and to that are ids of stored theses
\* and a kind of the supported set, in every state of the store.
C1_RelationsIntegrity ==
    \A id \in DOMAIN chest :
        IsRelation(chest[id].content) =>
            /\ chest[id].content.Relation.from \in DOMAIN chest
            /\ chest[id].content.Relation.to \in DOMAIN chest
            /\ chest[id].content.Relation.kind \in supported_relations_kinds

\* C2: once remove_thesis(id) has returned for a stored id, no stored relation
\* has id as from or to and no stored text has id among its references.
C2_CascadeSound ==
    [][(last'.op = "remove_thesis" /\ last'.id \in DOMAIN chest) =>
          \A x \in DOMAIN chest' : last'.id \notin PointsAt(chest'[x])]_vars

\* a remove_thesis of a stored thesis has just cascaded to a text that
\* referenced it, and both are gone
C2_Witness ==
    /\ last.op = "remove_thesis"
    /\ last.calls >= 2
    /\ last.id \notin DOMAIN chest
    /\ chest # <<>>

\* C3: once remove_thesis has returned, nothing stored points at any thesis
\* the call removed, the relations deleted by the cascade included.
C3_CascadeTransitive ==
    [][last'.op = "remove_thesis" =>
          \A removed \in DOMAIN chest \ DOMAIN chest' :
              \A x \in DOMAIN chest' : removed \notin PointsAt(chest'[x])]_vars

\* two stored texts that reference each other by id
ReferEachOther(c, x, y) ==
    /\ x # y /\ x \in DOMAIN c /\ y \in DOMAIN c
    /\ IsText(c[x].content) /\ IsText(c[y].content)
    /\ y \in PointsAt(c[x]) /\ x \in PointsAt(c[y])

\* C4: remove_thesis returns after finitely many calls of itself, and after
\* removing one of two texts that reference each other neither is stored.
C4_RemoveTerminates ==
    [][last'.op = "remove_thesis" =>
          /\ ~last'.exhausted
          /\ \A y \in DOMAIN chest :
                ReferEachOther(chest, last'.id, y) =>
                    last'.id \notin DOMAIN chest' /\ y \notin DOMAIN chest']_vars

\* one of two texts that referenced each other has just been removed
C4_Witness ==
    /\ last.op = "remove_thesis"
    /\ last.calls = 2
    /\ \E y \in 1..Len(sources) :
          /\ y # last.id
          /\ last.id \in 1..Len(sources)
          /\ sources[last.id] = "a[" \o to_base64(y) \o "]"
          /\ sources[y] = "a[" \o to_base64(last.id) \o "]"
          /\ y \notin DOMAIN chest
          /\ last.id \notin DOMAIN chest

\* C5: no two stored theses hold the same alias.
C5_AliasUnique ==
    \A x \in DOMAIN chest : \A y \in DOMAIN chest :
        (x # y /\ chest[x].alias # JsonNull) => chest[x].alias # chest[y].alias

\* C6: insert_thesis of a thesis whose alias a stored thesis holds, and
\* set_alias(id, a) when another stored thesis holds a, return an error and
\* leave the store as it was.
C6_AliasInUseRefused ==
    [][(/\ last'.op \in {"insert_thesis", "set_alias"}
        /\ last'.alias # None
        /\ \E x \in DOMAIN chest :
              x # last'.id /\ chest[x].alias = JsonString(last'.alias[1]))
       => (last'.result # Ok /\ chest' = chest)]_vars

\* C7: every stored thesis is stored under the id of its own content, and no
\* operation changes the content of a thesis that stays stored.
C7_ContentAndKeyFixed ==
    /\ [](\A id \in DOMAIN chest : Content_id(sources, chest[id].content) = id)
    /\ [][\A id \in DOMAIN chest \cap DOMAIN chest' :
             chest'[id].content = chest[id].content]_vars

\* a stored thesis has been tagged and has just been given an alias, while
\* another thesis has been removed
C7_Witness ==
    /\ last.op = "set_alias"
    /\ last.id \in DOMAIN chest
    /\ chest[last.id].tags # <<>>
    /\ Len(sources) > Cardinality(DOMAIN chest)

\* C8: the id of a thesis is the hash of the encoding of its content, so two
\* theses of equal content have the same id whatever their aliases and tags.
C8_IdOfContentOnly ==
    \A t \in AllInputs :
        /\ Thesis_id(sources, t) = xxh3_128(sources, source_of(t.content))
        /\ \A alias \in OptionalAliases, tags \in SeqsUpTo(Tags, MaxTags) :
              Thesis_id(sources, [t EXCEPT !.alias = alias, !.tags = tags])
                  = Thesis_id(sources, t)

\* a thesis is stored with an alias and a tag, and the thesis of the same
\* content without alias and tags has the id it is stored under
C8_Witness ==
    \E id \in DOMAIN chest :
        /\ chest[id].alias # JsonNull
        /\ chest[id].tags # <<>>
        /\ Thesis_id(sources, [alias |-> None, content |-> chest[id].content,
                               tags |-> <<>>]) = id

\* C10: insert_thesis of a thesis whose id is the id of a stored thesis
\* returns the duplicate error and leaves the whole store as it was, whatever
\* the alias and the tags of the thesis given.
C10_DuplicateRefused ==
    [][(last'.op = "insert_thesis" /\ contains_object_with_id(chest, last'.id))
       => (last'.result = ErrDuplicate /\ chest' = chest /\ sources' = sources)]_vars

\* an insert_thesis with an alias other than the stored one has just been
\* refused as a duplicate of a stored thesis that carries a tag
C10_Witness ==
    /\ last.op = "insert_thesis"
    /\ last.result = ErrDuplicate
    /\ last.id \in DOMAIN chest
    /\ last.alias # from_value(chest[last.id]).alias
    /\ chest[last.id].tags # <<>>

(***************************************************************************)
(* A client that checks its writes: it inserts theses it has not inserted  *)
(* before and tags the theses it inserted, and keeps for each what it      *)
(* inserted and the tags it then asked for.                                *)
(***************************************************************************)
GenTags == {"x", "y"}

GenInputs == ThesisInputs(TextInputs, OptionalAliases, SeqsUpTo(Tags, MaxTags))

\* the tag_thesis calls made so far
RECURSIVE AddedSoFar(_)
AddedSoFar(S) ==
    IF S = {} THEN 0
    ELSE LET id == CHOOSE x \in S : TRUE
         IN  Len(previously_added_theses[id].added) + AddedSoFar(S \ {id})

GenInsert(thesis) ==
    /\ Thesis_id(sources, thesis) \notin DOMAIN previously_added_theses
    /\ InsertThesis(thesis)
    /\ previously_added_theses' =
          IF last'.result = Ok
          THEN [id \in DOMAIN previously_added_theses \cup {last'.id} |->
                  IF id = last'.id
                  THEN [thesis |-> thesis, added |-> <<>>]
                  ELSE previously_added_theses[id]]
          ELSE previously_added_theses

GenTag(thesis_to_tag_id, tag_to_add) ==
    /\ thesis_to_tag_id \in DOMAIN previously_added_theses
    /\ AddedSoFar(DOMAIN previously_added_theses) < MaxAdded
    /\ TagThesis(thesis_to_tag_id, tag_to_add)
    /\ previously_added_theses' =
          [previously_added_theses EXCEPT ![thesis_to_tag_id].added = Append(@, tag_to_add)]

NextGen ==
    \/ \E thesis \in GenInputs : GenInsert(thesis) /\ UNCHANGED parsers_vars
    \/ \E thesis_to_tag_id \in Ids, tag_to_add \in GenTags :
            GenTag(thesis_to_tag_id, tag_to_add) /\ UNCHANGED parsers_vars

SpecGen == Init /\ [][NextGen]_vars

\* the tags of a thesis that carried tags and was then asked to carry each of
\* added in turn: tag_thesis adds a tag the thesis does not carry
RECURSIVE TagsAfter(_, _)
TagsAfter(tags, added) ==
    IF added = <<>> THEN tags
    ELSE TagsAfter(IF Head(added) \in Range(tags) THEN tags ELSE Append(tags, Head(added)),
                   Tail(added))

PairAliases == {"a", "b"}
PairTags == {"x", "y"}

PairTexts == {[Text |-> [BaseText EXCEPT !.raw_text_parts = <<part>>]] : part \in {"a", "b"}}

\* the tags lists given to insert_thesis: the short ones, and one that carries
\* a tag twice around another tag
PairTagsLists == SeqsUpTo(PairTags, MaxPairTags) \cup {<<"x", "y", "x">>}

PairInputs ==
    ThesisInputs(PairTexts, {None} \cup {Some(a) : a \in PairAliases}, PairTagsLists)

NextPair ==
    \/ \E thesis \in PairInputs :
            InsertThesis(thesis) /\ UNCHANGED <<previously_added_theses, parsers_vars>>
    \/ \E thesis_id \in Ids, tag \in PairTags :
            TagThesis(thesis_id, tag) /\ UNCHANGED <<previously_added_theses, parsers_vars>>
    \/ \E thesis_id \in Ids, tag \in PairTags :
            UntagThesis(thesis_id, tag) /\ UNCHANGED <<previously_added_theses, parsers_vars>>
    \/ \E thesis_id \in Ids, new_alias \in PairAliases :
            SetAlias(thesis_id, new_alias) /\ UNCHANGED <<previously_added_theses, parsers_vars>>
    \/ \E thesis_id \in Ids :
            RemoveThesis(thesis_id) /\ UNCHANGED <<previously_added_theses, parsers_vars>>

SpecPair == Init /\ [][NextPair]_vars

\* the relations that may be given to insert_thesis
RelationTheses == ThesisInputs(RelationInputs, OptionalAliases, {<<>>})

IsErr(result) == result[1] = "Err"

C12_UnsupportedKindRefused ==
    \A thesis \in RelationTheses :
        LET relation == thesis.content.Relation
            r == insert_thesis(sources, chest, thesis)
        IN  relation.kind \notin supported_relations_kinds =>
                /\ IsErr(r.result)
                /\ r.chest = chest
                /\ (relation.from \in DOMAIN chest /\ relation.to \in DOMAIN chest)
                   => r.result = ErrUnsupportedKind

\* a relation of an unsupported kind between two stored theses has just been
\* refused
C12_Witness ==
    /\ last.op = "insert_thesis"
    /\ last.result = ErrUnsupportedKind
    /\ DOMAIN chest = Ids

\* C13: no stored thesis has the same tag twice in its tags.
C13_NoRepeatedTag ==
    \A id \in DOMAIN chest :
        \A i \in 1..Len(chest[id].tags) : \A j \in 1..Len(chest[id].tags) :
            i # j => chest[id].tags[i] # chest[id].tags[j]

RECURSIVE WithoutFirst(_, _)
WithoutFirst(tags, x) ==
    IF tags = <<>> THEN <<>>
    ELSE IF Head(tags) = x THEN Tail(tags)
    ELSE <<Head(tags)>> \o WithoutFirst(Tail(tags), x)

\* C15: untag_thesis(id, x) on a stored thesis returns Ok; when x is among
\* the tags of id it removes the first occurrence of x and keeps the other
\* tags in their order, and nothing else changes; when x is not among them
\* the store is unchanged.
C15_UntagFirst ==
    [][(last'.op = "untag_thesis" /\ last'.id \in DOMAIN chest) =>
          LET id == last'.id
              x == last'.tag[1]
          IN  /\ last'.result = Ok
              /\ chest' = IF x \in Range(chest[id].tags)
                          THEN [chest EXCEPT ![id].tags = WithoutFirst(@, x)]
                          ELSE chest]_vars

\* untag_thesis has just removed the first of two occurrences of a tag that
\* had another tag between them
C15_Witness ==
    /\ last.op = "untag_thesis"
    /\ last.tag = Some("x")
    /\ last.id \in DOMAIN chest
    /\ chest[last.id].tags = <<"y", "x">>

\* C16: where_referenced(x) returns the ids of the stored theses that point
\* at x, every stored text with x among its references and every stored
\* relation with x as from or to, and no other id.
C16_WhereReferencedExact ==
    \A x \in Ids :
        Range(where_referenced(chest, x)) = {y \in DOMAIN chest : x \in PointsAt(chest[y])}

\* a thesis is referenced by a stored text and is the to of a stored relation
\* from another thesis, and where_referenced lists both
C16_Witness ==
    \E x \in Ids : \E t \in Range(where_referenced(chest, x)) :
        \E r \in Range(where_referenced(chest, x)) :
            /\ IsText(chest[t].content)
            /\ IsRelation(chest[r].content)
            /\ chest[r].content.Relation.from # x

\* C18: remove_thesis(id) for an id that is not stored returns Ok and leaves
\* the store unchanged.
C18_RemoveAbsentNoOp ==
    [][(last'.op = "remove_thesis" /\ last'.id \notin DOMAIN chest) =>
          (last'.result = Ok /\ chest' = chest)]_vars

\* remove_thesis has just been called with an id that was never stored and
\* that a stored thesis points at
C18_Witness ==
    /\ last.op = "remove_thesis"
    /\ last.id > Len(sources)
    /\ \E y \in DOMAIN chest : last.id \in PointsAt(chest[y])

\* C19: after set_alias(id, new) on a stored thesis whose alias was old, with
\* no other stored thesis holding old or new, get_thesis_id_by_alias(old) is
\* None, get_thesis_id_by_alias(new) is Some(id), get_alias_by_thesis_id(id)
\* is Some(new), and the thesis is stored under id with its content and tags.
C19_SetAliasMoves ==
    [][(/\ last'.op = "set_alias"
        /\ last'.id \in DOMAIN chest
        /\ \A y \in DOMAIN chest \ {last'.id} :
              /\ chest[y].alias # chest[last'.id].alias
              /\ chest[y].alias # JsonString(last'.alias[1]))
       => LET id == last'.id
              new == last'.alias[1]
              old == get_alias_by_thesis_id(chest, id)
          IN  /\ last'.result = Ok
              /\ (old # None /\ old # Some(new))
                    => get_thesis_id_by_alias(chest', old[1]) = None
              /\ get_thesis_id_by_alias(chest', new) = Some(id)
              /\ get_alias_by_thesis_id(chest', id) = Some(new)
              /\ id \in DOMAIN chest'
              /\ chest'[id].content = chest[id].content
              /\ chest'[id].tags = chest[id].tags]_vars

\* set_alias has just given the alias "b" to one of two stored theses, and no
\* thesis holds "a"
C19_Witness ==
    /\ last.op = "set_alias"
    /\ last.alias = Some("b")
    /\ Cardinality(DOMAIN chest) = 2
    /\ get_thesis_id_by_alias(chest, "b") = Some(last.id)
    /\ get_thesis_id_by_alias(chest, "a") = None
    /\ select_alias(chest, "b") = {last.id}

(***************************************************************************)
(* Validation (alias.rs, tag.rs, relation.rs, text.rs, content.rs,         *)
(* thesis.rs).  Each validator matches the whole string against one or     *)
(* more characters of a class.  The characters of the strings used here    *)
(* are Latin letters, which every one of the classes holds, so a string    *)
(* fails exactly when it is empty.                                         *)
(***************************************************************************)
is_match_one_or_more(string) == Len(string) >= 1

Alias_validated(alias) == is_match_one_or_more(alias)
Tag_validate(tag) == is_match_one_or_more(tag)
RelationKind_validate(kind) == is_match_one_or_more(kind)
RawText_validated(raw_text) == is_match_one_or_more(raw_text)

Text_validated(text) ==
    \A i \in 1..Len(text.raw_text_parts) : RawText_validated(text.raw_text_parts[i])

Relation_validate(relation) == RelationKind_validate(relation.kind)

Content_validated(content) ==
    IF IsText(content)
    THEN Text_validated(content.Text)
    ELSE Relation_validate(content.Relation)

Thesis_validated(thesis) ==
    /\ thesis.alias # None => Alias_validated(thesis.alias[1])
    /\ Content_validated(thesis.content)
    /\ \A i \in 1..Len(thesis.tags) : Tag_validate(thesis.tags[i])

(***************************************************************************)
(* The store of two texts given aliases and tags that may be empty strings. *)
(***************************************************************************)
AnyAliases == {"a", ""}
AnyTags == {"x", ""}

AnyInputs ==
    ThesisInputs(PairTexts, {None} \cup {Some(a) : a \in AnyAliases},
                 SeqsUpTo(AnyTags, MaxTags))

NextAny ==
    \/ \E thesis \in AnyInputs :
            InsertThesis(thesis) /\ UNCHANGED <<previously_added_theses, parsers_vars>>
    \/ \E thesis_id \in Ids, tag \in AnyTags :
            TagThesis(thesis_id, tag) /\ UNCHANGED <<previously_added_theses, parsers_vars>>
    \/ \E thesis_id \in Ids, tag \in AnyTags :
            UntagThesis(thesis_id, tag) /\ UNCHANGED <<previously_added_theses, parsers_vars>>
    \/ \E thesis_id \in Ids, new_alias \in AnyAliases :
            SetAlias(thesis_id, new_alias) /\ UNCHANGED <<previously_added_theses, parsers_vars>>
    \/ \E thesis_id \in Ids :
            RemoveThesis(thesis_id) /\ UNCHANGED <<previously_added_theses, parsers_vars>>

SpecAny == Init /\ [][NextAny]_vars

\* C20: every stored thesis passes validation: its alias, its tags, its
\* relation kind and its raw text parts pass their validators.
C20_StoredValid ==
    \A id \in DOMAIN chest : Thesis_validated(from_value(chest[id]))

(***************************************************************************)
(* The aliases resolver (aliases_resolver.rs) and references               *)
(* (reference.rs).  A Reference is <<"Alias", alias>> or                   *)
(* <<"ObjectId", id>>; a Result is <<"Ok", value>> or <<"Err", ...>>.      *)
(***************************************************************************)
ReferenceAlias(alias) == <<"Alias", alias>>
ReferenceObjectId(thesis_id) == <<"ObjectId", thesis_id>>

OkOf(value) == <<"Ok", value>>
ErrNoThesis(thesis_id) == <<"Err", "Can not find thesis with id", to_base64(thesis_id)>>
ErrNoAlias(alias) == <<"Err", "Can not find thesis id by alias", alias>>

\* a resolver that asks the store before the batch
get_thesis_id_by_reference_store_first(known, c, reference) ==
    IF reference[1] = "ObjectId"
    THEN IF get_thesis(c, reference[2]) = None
         THEN ErrNoThesis(reference[2])
         ELSE OkOf(reference[2])
    ELSE IF get_thesis_id_by_alias(c, reference[2]) # None
         THEN OkOf(get_thesis_id_by_alias(c, reference[2])[1])
         ELSE IF reference[2] \in DOMAIN known
              THEN OkOf(known[reference[2]])
              ELSE ErrNoAlias(reference[2])

\* a resolver that takes an id for granted
get_thesis_id_by_reference_unverified(known, c, reference) ==
    IF reference[1] = "ObjectId"
    THEN OkOf(reference[2])
    ELSE IF reference[2] \in DOMAIN known
         THEN OkOf(known[reference[2]])
         ELSE IF get_thesis_id_by_alias(c, reference[2]) = None
              THEN ErrNoAlias(reference[2])
              ELSE OkOf(get_thesis_id_by_alias(c, reference[2])[1])

\* a resolver that answers an alias nobody bound with the first id
get_thesis_id_by_reference_defaulting(known, c, reference) ==
    IF reference[1] = "ObjectId"
    THEN IF get_thesis(c, reference[2]) = None
         THEN ErrNoThesis(reference[2])
         ELSE OkOf(reference[2])
    ELSE IF reference[2] \in DOMAIN known
         THEN OkOf(known[reference[2]])
         ELSE IF get_thesis_id_by_alias(c, reference[2]) = None
              THEN OkOf(1)
              ELSE OkOf(get_thesis_id_by_alias(c, reference[2])[1])

\* AliasesResolver::get_thesis_id_by_reference, its read view being c
get_thesis_id_by_reference(known, c, reference) ==
    IF reference[1] = "ObjectId"
    THEN IF get_thesis(c, reference[2]) = None
         THEN ErrNoThesis(reference[2])
         ELSE OkOf(reference[2])
    ELSE IF reference[2] \in DOMAIN known
         THEN OkOf(known[reference[2]])
         ELSE IF get_thesis_id_by_alias(c, reference[2]) = None
              THEN ErrNoAlias(reference[2])
              ELSE OkOf(get_thesis_id_by_alias(c, reference[2])[1])

\* AliasesResolver::remember: BTreeMap::insert
remember(known, alias, object_id) ==
    [a \in DOMAIN known \cup {alias} |-> IF a = alias THEN object_id ELSE known[a]]

(***************************************************************************)
(* Text::new (text.rs).  The input is a sequence of characters.  An        *)
(* ObjectId is spelled with 22 base64 characters in the program and with   *)
(* the characters of to_base64 here, so the id-shaped tokens are the       *)
(* spellings of the ObjectIds.                                             *)
(***************************************************************************)
\* serde_json::from_value::<ObjectId> of a token the regex took for an id
from_base64(string) == CHOOSE id \in Ids : to_base64(id) = string

\* [A-Za-z0-9-_]{22}
is_id_shaped(characters) == \E id \in Ids : to_base64(id) = concat(characters)

RECURSIVE next_bracket(_, _)
\* the position of the first bracket of either kind from `from` on, 0 for none
next_bracket(characters, from) ==
    IF from > Len(characters) THEN 0
    ELSE IF characters[from] \in {"[", "]"} THEN from
    ELSE next_bracket(characters, from + 1)

\* where a match of REFERENCE_IN_TEXT_REGEX that starts at `start` ends, 0
\* for no match: an opening bracket, one or more characters that are not
\* brackets, a closing bracket
match_end(characters, start) ==
    IF characters[start] # "[" THEN 0
    ELSE LET closing == next_bracket(characters, start + 1) IN
         IF closing > start + 1 /\ characters[closing] = "]" THEN closing ELSE 0

RECURSIVE captures_iter(_, _)
\* the matches from `from` on, leftmost first, none overlapping another
captures_iter(characters, from) ==
    IF from > Len(characters) THEN <<>>
    ELSE IF match_end(characters, from) # 0
         THEN <<[start |-> from, end |-> match_end(characters, from)]>>
                  \o captures_iter(characters, match_end(characters, from) + 1)
         ELSE captures_iter(characters, from + 1)

\* what stands between the brackets of a match
token_of(characters, reference_match) ==
    SubSeq(characters, reference_match.start + 1, reference_match.end - 1)

\* capture group 2: the id of a token that is an id, with or without a
\* colon before it; None when the token is an alias (capture group 3)
thesis_id_string(token) ==
    IF is_id_shaped(token) THEN Some(concat(token))
    ELSE IF Len(token) >= 2 /\ token[1] = ":" /\ is_id_shaped(Tail(token))
         THEN Some(concat(Tail(token)))
         ELSE None

ErrUnknownAlias(alias_string) == <<"Err", "because do not know such alias", alias_string>>

EmptyText == [raw_text_parts |-> <<>>, references |-> <<>>, start_with_reference |-> FALSE]

\* a push of text_before that keeps the empty spans too
push_text_before_always(result, text_before) ==
    [result EXCEPT !.raw_text_parts = Append(@, concat(text_before))]

\* the push of text_before, when it is not empty
push_text_before(result, text_before) ==
    IF text_before # <<>>
    THEN [result EXCEPT !.raw_text_parts = Append(@, concat(text_before))]
    ELSE result

RECURSIVE Text_new_loop(_, _, _, _, _, _)
\* the loop of Text::new over the matches still to come
Text_new_loop(characters, known, c, matches, last_match_end, result) ==
    IF matches = <<>>
    THEN OkOf(IF last_match_end < Len(characters)
              THEN [result EXCEPT !.raw_text_parts =
                        Append(@, concat(SubSeq(characters, last_match_end + 1,
                                                Len(characters))))]
              ELSE result)
    ELSE LET reference_match == Head(matches)
             flagged == IF reference_match.start = 1
                        THEN [result EXCEPT !.start_with_reference = TRUE]
                        ELSE result
             text_before == SubSeq(characters, last_match_end + 1,
                                   reference_match.start - 1)
             parted == push_text_before(flagged, text_before)
             token == token_of(characters, reference_match)
             resolved ==
                 IF thesis_id_string(token) # None
                 THEN OkOf(from_base64(thesis_id_string(token)[1]))
                 ELSE get_thesis_id_by_reference(known, c, ReferenceAlias(concat(token)))
         IN  IF resolved[1] = "Err"
             THEN ErrUnknownAlias(concat(token))
             ELSE Text_new_loop(characters, known, c, Tail(matches), reference_match.end,
                                [parted EXCEPT !.references = Append(@, resolved[2])])

\* Text::new
Text_new(characters, known, c) ==
    Text_new_loop(characters, known, c, captures_iter(characters, 1), 0, EmptyText)

(***************************************************************************)
(* Texts parsed against a store and a batch: theses are inserted, aliases  *)
(* are remembered, and Text::new is called on the input.                   *)
(***************************************************************************)
\* the most pieces an input text is put together from
MaxPieces == 3

\* the pieces of the input texts: a letter, each bracket alone, an alias in
\* brackets, an id in brackets, an id in brackets after a colon
TextPieces ==
    {<<"x">>, <<"[">>, <<"]">>, <<"[", "a", "]">>, <<"[", "1", "]">>,
     <<"[", ":", "1", "]">>}

RECURSIVE flattened(_)
flattened(pieces) == IF pieces = <<>> THEN <<>> ELSE Head(pieces) \o flattened(Tail(pieces))

TextSources == {flattened(pieces) : pieces \in SeqsUpTo(TextPieces, MaxPieces)}

\* the theses of the store the texts are parsed against
StoreTheses == ThesisInputs(PairTexts, OptionalAliases, {<<>>})

InitText ==
    /\ sources = <<>>
    /\ chest = <<>>
    /\ last = NoCall
    /\ previously_added_theses = <<>>
    /\ input \in TextSources
    /\ known_aliases = <<>>
    /\ iterator = [paragraphs_iterator |-> <<>>, aliases |-> <<>>]
    /\ yielded = <<>>

\* aliases_resolver.remember(alias, object_id)
Remember(alias, object_id) ==
    /\ known_aliases' = remember(known_aliases, alias, object_id)
    /\ last' = [NoCall EXCEPT !.op = "remember", !.id = object_id, !.alias = Some(alias)]
    /\ UNCHANGED <<sources, chest, previously_added_theses, input, iterator, yielded>>

\* Text::new(input, aliases_resolver)
TextNew ==
    /\ last' = [NoCall EXCEPT !.op = "Text_new",
                              !.result = Text_new(input, known_aliases, chest)]
    /\ UNCHANGED <<sources, chest, previously_added_theses, parsers_vars>>

\* aliases_resolver.get_thesis_id_by_reference(reference)
Resolve(reference) ==
    /\ last' = [NoCall EXCEPT
                    !.op = "get_thesis_id_by_reference",
                    !.id = IF reference[1] = "ObjectId" THEN reference[2] ELSE 0,
                    !.alias = IF reference[1] = "Alias" THEN Some(reference[2]) ELSE None,
                    !.result = get_thesis_id_by_reference(known_aliases, chest, reference)]
    /\ UNCHANGED <<sources, chest, previously_added_theses, parsers_vars>>

NextText ==
    \/ \E thesis \in StoreTheses :
            InsertThesis(thesis) /\ UNCHANGED <<previously_added_theses, parsers_vars>>
    \/ \E alias \in Aliases, object_id \in Ids : Remember(alias, object_id)
    \/ TextNew

SpecText == InitText /\ [][NextText]_vars

\* the references a batch may resolve
References ==
    {ReferenceAlias(alias) : alias \in PairAliases}
        \cup {ReferenceObjectId(thesis_id) : thesis_id \in Ids}

\* The resolver against a store and a batch.
NextResolver ==
    \/ \E thesis \in ThesisInputs(PairTexts, {None} \cup {Some(a) : a \in PairAliases}, {<<>>}) :
            InsertThesis(thesis) /\ UNCHANGED <<previously_added_theses, parsers_vars>>
    \/ \E alias \in PairAliases, object_id \in Ids : Remember(alias, object_id)
    \/ \E reference \in References : Resolve(reference)

SpecResolver == Init /\ [][NextResolver]_vars

(***************************************************************************)
(* Claims about Text::new and Text::composed.                              *)
(***************************************************************************)
\* the matches of the input that is being parsed
InputMatches == captures_iter(input, 1)

\* the id a token stands for in the state: the id it spells, or the id its
\* alias is bound to in the batch or else in the store
TokenId(token) ==
    IF thesis_id_string(token) # None
    THEN from_base64(thesis_id_string(token)[1])
    ELSE IF concat(token) \in DOMAIN known_aliases
         THEN known_aliases[concat(token)]
         ELSE get_thesis_id_by_alias(chest, concat(token))[1]

\* a token that is an alias bound nowhere
Unbound(token) ==
    /\ thesis_id_string(token) = None
    /\ concat(token) \notin DOMAIN known_aliases
    /\ get_thesis_id_by_alias(chest, concat(token)) = None

\* the span of the input before the i-th match, the last one being the span
\* after the last match
SpanBefore(i) ==
    SubSeq(input,
           IF i = 1 THEN 1 ELSE InputMatches[i - 1].end + 1,
           IF i = Len(InputMatches) + 1 THEN Len(input) ELSE InputMatches[i].start - 1)

\* the token of the i-th match as the id form of the input has it: an id
\* token as it is written, an alias token as the id it resolves to
IdFormToken(i) ==
    LET token == token_of(input, InputMatches[i]) IN
    IF thesis_id_string(token) # None THEN concat(token) ELSE to_base64(TokenId(token))

\* the input with each alias token replaced by its resolved id
IdForm ==
    concat([i \in 1..Len(InputMatches) |->
                concat(SpanBefore(i)) \o "[" \o IdFormToken(i) \o "]"])
        \o concat(SpanBefore(Len(InputMatches) + 1))

TextNewOk == last.op = "Text_new" /\ last.result[1] = "Ok"

\* C21: whenever Text::new has parsed the input (all its bracketed tokens
\* resolve), composing the parsed Text gives the input with each alias token
\* replaced by its resolved id, whatever the arrangement of spans and
\* references.  It is stated for the inputs whose tokens are aliases and
\* ids written without a colon.
C21_RoundTrip ==
    (TextNewOk /\ ":" \notin Range(input)) => composed(last.result[2]) = IdForm

\* C22: a Text that Text::new returns has start_with_reference true exactly
\* when a bracketed reference starts at offset 0 of the input, has the ids of
\* the tokens as its references in their order of appearance, an id-shaped
\* token giving the id it spells whether or not the resolver knows it, and has
\* the non-empty spans around the tokens as its raw_text_parts in input order.
C22_TextNewFields ==
    TextNewOk =>
        LET text == last.result[2]
            matches == InputMatches
            spans == SelectSeq([i \in 1..(Len(matches) + 1) |-> SpanBefore(i)],
                               LAMBDA span : span # <<>>)
        IN  /\ text.start_with_reference =
                  (Len(input) >= 1 /\ match_end(input, 1) # 0)
            /\ text.references =
                  [i \in 1..Len(matches) |-> TokenId(token_of(input, matches[i]))]
            /\ \A i \in 1..Len(matches) :
                  is_id_shaped(token_of(input, matches[i])) =>
                      to_base64(text.references[i]) = concat(token_of(input, matches[i]))
            /\ text.raw_text_parts = [i \in 1..Len(spans) |-> concat(spans[i])]

\* a text that starts with an alias the batch bound, goes on with a letter and
\* ends with the id of a thesis that is not in the store has been parsed
C22_Witness ==
    /\ TextNewOk
    /\ input = <<"[", "a", "]", "x", "[", "1", "]">>
    /\ "a" \in DOMAIN known_aliases
    /\ known_aliases["a"] = 2
    /\ 1 \notin DOMAIN chest
    /\ last.result[2] = [raw_text_parts |-> <<"x">>, references |-> <<2, 1>>,
                         start_with_reference |-> TRUE]

\* C23: Text::new of an input with a bracketed alias token that is bound
\* neither in the batch nor in the alias index of the store fails, and
\* returns no Text.
C23_UnknownAliasFails ==
    (/\ last.op = "Text_new"
     /\ \E i \in 1..Len(InputMatches) : Unbound(token_of(input, InputMatches[i])))
    => /\ last.result[1] = "Err"
       /\ \A i \in 1..Len(last.result) : last.result[i] \in STRING

\* Text::new has failed on an input that names a stored thesis by its id and
\* then an alias that neither the batch nor the store binds
C23_Witness ==
    /\ last.op = "Text_new"
    /\ last.result = ErrUnknownAlias("a")
    /\ input = <<"x", "[", "1", "]", "[", "a", "]">>
    /\ 1 \in DOMAIN chest
    /\ known_aliases = <<>>

(***************************************************************************)
(* Claims about the aliases resolver.                                      *)
(***************************************************************************)
\* C24: resolving Reference::Alias(a) gives the id the batch bound a to when
\* it bound it, whatever the alias index of the store says; otherwise it
\* gives what the alias index of the store gives; it fails when both miss.
\* remember(a, y) leaves a bound to y, whatever a was bound to, and leaves
\* the other bindings alone.
C24_AliasResolution ==
    /\ [](\A a \in PairAliases :
            LET r == get_thesis_id_by_reference(known_aliases, chest, ReferenceAlias(a))
                stored == get_thesis_id_by_alias(chest, a)
            IN  /\ a \in DOMAIN known_aliases => r = OkOf(known_aliases[a])
                /\ (a \notin DOMAIN known_aliases /\ stored # None) => r = OkOf(stored[1])
                /\ (a \notin DOMAIN known_aliases /\ stored = None) => r[1] = "Err")
    /\ [][last'.op = "remember" =>
            /\ DOMAIN known_aliases' = DOMAIN known_aliases \cup {last'.alias[1]}
            /\ known_aliases'[last'.alias[1]] = last'.id
            /\ \A a \in DOMAIN known_aliases \ {last'.alias[1]} :
                    known_aliases'[a] = known_aliases[a]
            /\ get_thesis_id_by_reference(known_aliases', chest',
                                          ReferenceAlias(last'.alias[1])) = OkOf(last'.id)]_vars

\* the alias index of the store maps "a" to one thesis, the batch bound "a"
\* to another, and resolving "a" has given the one of the batch
C24_Witness ==
    /\ last.op = "get_thesis_id_by_reference"
    /\ last.alias = Some("a")
    /\ get_thesis_id_by_alias(chest, "a") = Some(1)
    /\ "a" \in DOMAIN known_aliases
    /\ known_aliases["a"] = 2
    /\ last.result = OkOf(2)

\* C25: resolving Reference::ObjectId(x) gives x when the read view has a
\* thesis with id x and fails otherwise, whatever the batch has bound.
C25_ObjectIdResolution ==
    \A x \in Ids :
        LET r == get_thesis_id_by_reference(known_aliases, chest, ReferenceObjectId(x)) IN
        IF x \in DOMAIN chest THEN r = OkOf(x) ELSE r[1] = "Err"

\* the batch bound an alias to an id that no thesis of the store has, and
\* resolving that id has failed
C25_Witness ==
    /\ last.op = "get_thesis_id_by_reference"
    /\ last.id \in Ids \ DOMAIN chest
    /\ \E a \in DOMAIN known_aliases : known_aliases[a] = last.id
    /\ chest # <<>>
    /\ last.result = ErrNoThesis(last.id)

(***************************************************************************)
(* The commands of a batch (commands.rs).  A line is a sequence of         *)
(* characters, a paragraph a sequence of lines, and the input of           *)
(* CommandsIterator::new the sequence of the pieces that the runs of two   *)
(* or more line breaks cut it into.                                        *)
(***************************************************************************)
\* \s
Whitespace == {" "}
\* \w
WordCharacters == {"a", "b", "x", "1", "2", "3", "_"}
\* the characters of the class of RawText::validated
RawTextCharacters == (WordCharacters \ {"_"}) \cup Whitespace \cup {",", "-", ":", "."}

\* Regex::is_match of ^[class]+$
is_match(characters, class) ==
    Len(characters) >= 1 /\ \A i \in 1..Len(characters) : characters[i] \in class

\* Alias::validated of commands.rs: ^\S+$
commands_Alias_validated(characters) ==
    Len(characters) >= 1 /\ \A i \in 1..Len(characters) : characters[i] \notin Whitespace

\* Tag::validated: ^\w+$
Tag_validated(characters) == is_match(characters, WordCharacters)

\* RelationKind::validated: ^[\w\s]+$
RelationKind_validated(characters) == is_match(characters, WordCharacters \cup Whitespace)

\* Text::validated of the one line a command's text is made of
commands_Text_validated(characters) == is_match(characters, RawTextCharacters)

RECURSIVE trim_start(_)
trim_start(characters) ==
    IF characters # <<>> /\ Head(characters) \in Whitespace
    THEN trim_start(Tail(characters))
    ELSE characters

RECURSIVE trim_end(_)
trim_end(characters) ==
    IF characters # <<>> /\ characters[Len(characters)] \in Whitespace
    THEN trim_end(SubSeq(characters, 1, Len(characters) - 1))
    ELSE characters

RECURSIVE paragraph_trim_start(_)
\* str::trim at the start of a paragraph: line breaks are whitespace too
paragraph_trim_start(paragraph) ==
    IF paragraph = <<>> THEN <<>>
    ELSE IF trim_start(Head(paragraph)) = <<>>
         THEN paragraph_trim_start(Tail(paragraph))
         ELSE <<trim_start(Head(paragraph))>> \o Tail(paragraph)

RECURSIVE paragraph_trim_end(_)
paragraph_trim_end(paragraph) ==
    IF paragraph = <<>> THEN <<>>
    ELSE IF trim_end(paragraph[Len(paragraph)]) = <<>>
         THEN paragraph_trim_end(SubSeq(paragraph, 1, Len(paragraph) - 1))
         ELSE SubSeq(paragraph, 1, Len(paragraph) - 1)
                  \o <<trim_end(paragraph[Len(paragraph)])>>

\* paragraph.trim()
paragraph_trim(paragraph) == paragraph_trim_end(paragraph_trim_start(paragraph))

\* CommandsIterator::new: the paragraphs trimmed, the empty ones left out, the
\* rest numbered from 0
CommandsIterator_new(batch) ==
    LET trimmed == [i \in 1..Len(batch) |-> paragraph_trim(batch[i])]
        kept == SelectSeq(trimmed, LAMBDA paragraph : paragraph # <<>>)
    IN  [paragraphs_iterator |->
            [i \in 1..Len(kept) |-> [paragraph_index |-> i - 1, paragraph |-> kept[i]]],
         aliases |-> <<>>]

\* the operation characters of COMMAND_FIRST_LINE_REGEX
OperationCharacters == {"+", "-", "#", "^"}

\* the captures of ^ *(\+|-|#|\^) +([^ ]+) *$ in a line: None, or the
\* two groups
command_first_line_captures(line) ==
    LET stripped == trim_end(trim_start(line))
        after_operation == IF stripped = <<>> THEN <<>> ELSE Tail(stripped)
        second == trim_start(after_operation)
    IN  IF /\ stripped # <<>>
           /\ Head(stripped) \in OperationCharacters
           /\ Len(second) < Len(after_operation)
           /\ second # <<>>
           /\ \A i \in 1..Len(second) : second[i] # " "
        THEN Some(<<<<Head(stripped)>>, second>>)
        ELSE None

\* the errors of CommandsIterator::next that say which paragraph they are
\* about, and the error of serde_json that the ? operator hands on as it is
ErrFirstLine(paragraph_index, paragraph) ==
    <<"Err", "Can not parse first line", paragraph_index + 1, paragraph>>
ErrUnsupportedCombination(paragraph_index, paragraph) ==
    <<"Err", "Unsupported operation character and lines count combination",
      paragraph_index + 1, paragraph>>
ErrNoKnownThesis(paragraph_index, paragraph) ==
    <<"Err", "no known thesis referenced by", paragraph_index + 1, paragraph>>
ErrInvalidCommand(paragraph_index, paragraph) ==
    <<"Err", "Invalid command parsed from", paragraph_index + 1, paragraph>>
ErrSerde == <<"Err", "serde_json">>

\* serde_json::from_str::<ObjectId> of a line between quotes
ObjectId_from_str(line) ==
    IF is_id_shaped(line) THEN OkOf(from_base64(concat(line))) ELSE ErrSerde

\* ThesisReference::new
ThesisReference_new(line) ==
    IF commands_Alias_validated(line)
    THEN OkOf(<<"Alias", line>>)
    ELSE IF ObjectId_from_str(line)[1] = "Ok"
         THEN OkOf(<<"ObjectId", ObjectId_from_str(line)[2]>>)
         ELSE ErrSerde

\* ThesisReference::validated
ThesisReference_validated(thesis_reference) ==
    thesis_reference[1] = "Alias" => commands_Alias_validated(thesis_reference[2])

\* CommandsIterator::get_thesis_id
get_thesis_id(it, thesis_reference) ==
    IF thesis_reference[1] = "Alias"
    THEN IF thesis_reference[2] \in DOMAIN it.aliases
         THEN Some(it.aliases[thesis_reference[2]])
         ELSE None
    ELSE Some(thesis_reference[2])

\* a validation that lets every command through
Command_validated_unchecked(command) == TRUE

\* Command::validated
Command_validated(command) ==
    IF command.command = "AddTextThesis"
    THEN /\ command.alias # None => commands_Alias_validated(command.alias[1])
         /\ commands_Text_validated(command.text)
    ELSE IF command.command = "AddRelationThesis"
    THEN /\ command.alias # None => commands_Alias_validated(command.alias[1])
         /\ RelationKind_validated(command.kind)
    ELSE IF command.command = "RemoveThesis"
    THEN TRUE
    ELSE IF command.command = "AddTag"
    THEN /\ ThesisReference_validated(command.thesis_reference)
         /\ Tag_validated(command.tag)
    ELSE Tag_validated(command.tag)

\* self.aliases.insert(alias, id)
aliases_insert(it, alias, id) ==
    [it EXCEPT !.aliases =
        [a \in DOMAIN it.aliases \cup {alias} |-> IF a = alias THEN id ELSE it.aliases[a]]]

\* the byte strings hashed so far, after the hash of bytes is taken
hashed(known, bytes) ==
    IF \E i \in 1..Len(known) : known[i] = bytes THEN known ELSE Append(known, bytes)

\* the arm ('+', 2) of the match in CommandsIterator::next
add_text_thesis_arm(it, known, alias_option, lines) ==
    LET text == lines[2]
        bytes == concat(text)
    IN  [result |-> OkOf([command |-> "AddTextThesis", alias |-> alias_option,
                          text |-> text]),
         iterator |-> IF alias_option # None
                      THEN aliases_insert(it, alias_option[1], xxh3_128(known, bytes))
                      ELSE it,
         sources |-> IF alias_option # None THEN hashed(known, bytes) ELSE known]

\* the arm ('+', 4)
add_relation_thesis_arm(it, known, alias_option, lines, paragraph_index, paragraph) ==
    LET from == ThesisReference_new(lines[2])
        kind == lines[3]
        to == ThesisReference_new(lines[4])
        failed(result) == [result |-> result, iterator |-> it, sources |-> known]
    IN  IF from[1] = "Err" THEN failed(ErrSerde)
        ELSE IF to[1] = "Err" THEN failed(ErrSerde)
        ELSE LET command == [command |-> "AddRelationThesis", alias |-> alias_option,
                             from |-> from[2], to |-> to[2], kind |-> kind]
             IN  IF alias_option = None
                 THEN [result |-> OkOf(command), iterator |-> it, sources |-> known]
                 ELSE IF get_thesis_id(it, from[2]) = None
                      THEN failed(ErrNoKnownThesis(paragraph_index, paragraph))
                 ELSE IF get_thesis_id(it, to[2]) = None
                      THEN failed(ErrNoKnownThesis(paragraph_index, paragraph))
                 ELSE LET bytes == encode_to_vec([from |-> get_thesis_id(it, from[2])[1],
                                                  to |-> get_thesis_id(it, to[2])[1],
                                                  kind |-> concat(kind)])
                      IN  [result |-> OkOf(command),
                           iterator |-> aliases_insert(it, alias_option[1],
                                                       xxh3_128(known, bytes)),
                           sources |-> hashed(known, bytes)]

\* the match on (operation_char, lines.len()) in CommandsIterator::next
match_operation(it, known, operation_char, alias_option, lines, paragraph_index, paragraph) ==
    LET failed(result) == [result |-> result, iterator |-> it, sources |-> known]
        made(command) == [result |-> OkOf(command), iterator |-> it, sources |-> known]
    IN  IF operation_char = "+" /\ Len(lines) = 2
        THEN add_text_thesis_arm(it, known, alias_option, lines)
        ELSE IF operation_char = "+" /\ Len(lines) = 4
        THEN add_relation_thesis_arm(it, known, alias_option, lines, paragraph_index,
                                     paragraph)
        ELSE IF operation_char = "-" /\ Len(lines) = 2
        THEN IF ObjectId_from_str(lines[2])[1] = "Err" THEN failed(ErrSerde)
             ELSE made([command |-> "RemoveThesis",
                        thesis_id |-> ObjectId_from_str(lines[2])[2]])
        ELSE IF operation_char = "#" /\ Len(lines) = 3
        THEN IF ThesisReference_new(lines[2])[1] = "Err" THEN failed(ErrSerde)
             ELSE made([command |-> "AddTag",
                        thesis_reference |-> ThesisReference_new(lines[2])[2],
                        tag |-> lines[3]])
        ELSE IF operation_char = "^" /\ Len(lines) = 3
        THEN IF ObjectId_from_str(lines[2])[1] = "Err" THEN failed(ErrSerde)
             ELSE made([command |-> "RemoveTag",
                        thesis_id |-> ObjectId_from_str(lines[2])[2],
                        tag |-> lines[3]])
        ELSE failed(ErrUnsupportedCombination(paragraph_index, paragraph))

\* CommandsIterator::next: the result, the iterator after the call and the
\* byte strings hashed by then.  Ok(None) is <<"Ok", None>>, Ok(Some(command))
\* is <<"Ok", Some(command)>>.
CommandsIterator_next(it, known) ==
    IF it.paragraphs_iterator = <<>>
    THEN [result |-> OkOf(None), iterator |-> it, sources |-> known]
    ELSE LET paragraph_index == Head(it.paragraphs_iterator).paragraph_index
             paragraph == Head(it.paragraphs_iterator).paragraph
             advanced == [it EXCEPT !.paragraphs_iterator = Tail(@)]
             lines == paragraph
             captures == command_first_line_captures(lines[1])
         IN  IF captures = None
             THEN [result |-> ErrFirstLine(paragraph_index, paragraph),
                   iterator |-> advanced, sources |-> known]
             ELSE LET operation_char == captures[1][1][1]
                      alias_option == Some(captures[1][1])
                      matched == match_operation(advanced, known, operation_char,
                                                 alias_option, lines, paragraph_index,
                                                 paragraph)
                  IN  IF ~commands_Alias_validated(alias_option[1])
                      THEN [result |-> ErrFirstLine(paragraph_index, paragraph),
                            iterator |-> advanced, sources |-> known]
                      ELSE IF matched.result[1] = "Err"
                      THEN matched
                      ELSE IF ~Command_validated(matched.result[2])
                      THEN [matched EXCEPT
                                !.result = ErrInvalidCommand(paragraph_index, paragraph)]
                      ELSE [matched EXCEPT !.result = OkOf(Some(matched.result[2]))]

(***************************************************************************)
(* A batch parsed by a consumer that stops at the first error and at the   *)
(* end of the batch.                                                       *)
(***************************************************************************)
\* the most lines a paragraph has after its first line
MaxPayload == 3

\* the first lines of the paragraphs: an operation character alone or with
\* an alias, a line without operation character, an alias with no space
\* before it
FirstLines ==
    {<<c>> : c \in OperationCharacters \cup {"@"}}
        \cup {<<c, " ", "a">> : c \in OperationCharacters \cup {"@"}}
        \cup {<<"x">>, <<"+", "a">>}

\* the lines after the first: a word, an id, an operation character, two
\* words
PayloadLines == {<<"a">>, <<"1">>, <<"+">>, <<"a", " ", "b">>}

ParagraphInputs ==
    {<<first>> \o payload : first \in FirstLines,
                            payload \in SeqsUpTo(PayloadLines, MaxPayload)}

\* the paragraphs a batch may have before its last one: a text thesis, a
\* text thesis of invalid text, a removal of a tag, a line that is no
\* command, a paragraph of spaces
EarlierParagraphs ==
    {<<<<"+", " ", "a">>, <<"a">>>>,
     <<<<"+", " ", "a">>, <<"+">>>>,
     <<<<"^", " ", "a">>, <<"1">>, <<"a">>>>,
     <<<<"x">>>>,
     <<<<" ">>>>}

BatchInputs ==
    {<<paragraph>> : paragraph \in ParagraphInputs}
        \cup {<<earlier, paragraph>> : earlier \in EarlierParagraphs,
                                       paragraph \in ParagraphInputs}

InitCommands ==
    /\ sources = <<>>
    /\ chest = <<>>
    /\ last = NoCall
    /\ previously_added_theses = <<>>
    /\ input \in BatchInputs
    /\ known_aliases = <<>>
    /\ iterator = CommandsIterator_new(input)
    /\ yielded = <<>>

\* commands_iterator.next(), called until it gives an error or None
IteratorNext ==
    LET r == CommandsIterator_next(iterator, sources) IN
    /\ yielded # <<>> =>
            /\ yielded[Len(yielded)][1] = "Ok"
            /\ yielded[Len(yielded)][2] # None
    /\ yielded' = Append(yielded, r.result)
    /\ iterator' = r.iterator
    /\ sources' = r.sources
    /\ last' = [NoCall EXCEPT !.op = "next", !.result = r.result]
    /\ UNCHANGED <<chest, previously_added_theses, input, known_aliases>>

NextCommands == IteratorNext

SpecCommands == InitCommands /\ [][NextCommands]_vars

(***************************************************************************)
(* Claims about the commands of a batch.                                   *)
(***************************************************************************)
\* the non-empty paragraphs of the input, in order
Paragraphs ==
    SelectSeq([i \in 1..Len(input) |-> paragraph_trim(input[i])],
              LAMBDA paragraph : paragraph # <<>>)

\* the paragraphs that next has been called on
Parsed == 1..(IF Len(yielded) <= Len(Paragraphs) THEN Len(yielded) ELSE Len(Paragraphs))

YieldedCommand(k) == yielded[k][1] = "Ok" /\ yielded[k][2] # None

\* the command that the table of paragraph shapes gives for an operation
\* character and a number of lines, "none" when it gives none
TableCommand(operation, lines_count) ==
    IF operation = "+" /\ lines_count = 2 THEN "AddTextThesis"
    ELSE IF operation = "+" /\ lines_count = 4 THEN "AddRelationThesis"
    ELSE IF operation = "-" /\ lines_count = 2 THEN "RemoveThesis"
    ELSE IF operation = "#" /\ lines_count >= 3 THEN "AddTag"
    ELSE IF operation = "^" /\ lines_count >= 3 THEN "RemoveTag"
    ELSE IF operation = "@" /\ lines_count = 2 THEN "SetAlias"
    ELSE "none"

\* every line after the first is the id of a thesis
PayloadOfIds(paragraph) ==
    \A i \in 2..Len(paragraph) : paragraph[i] = <<"1">>

\* C26: a paragraph gives a command only when its operation character and
\* its number of lines are in the table of shapes, and then the command of
\* the table; and a paragraph of a shape of the table, its first line being
\* the operation character and an alias and its other lines being ids, gives
\* the command of the table: '#' and '^' with three or more lines, '@' with
\* two lines.  (The relation shape is left out of the second half: its
\* references have to be bound as well.)
C26_ParagraphShapes ==
    \A k \in Parsed :
        LET paragraph == Paragraphs[k]
            operation == paragraph[1][1]
            lines_count == Len(paragraph)
        IN  /\ YieldedCommand(k) =>
                    yielded[k][2][1].command = TableCommand(operation, lines_count)
            /\ (/\ paragraph[1] = <<operation, " ", "a">>
                /\ PayloadOfIds(paragraph)
                /\ TableCommand(operation, lines_count) \notin {"none", "AddRelationThesis"})
               => /\ YieldedCommand(k)
                  /\ yielded[k][2][1].command = TableCommand(operation, lines_count)

\* C27: the command of an add paragraph whose first line has an alias has
\* that alias, the token after the operation character, and once the
\* paragraph is parsed the iterator has the alias bound to the id of the new
\* thesis, for the paragraphs that follow.
C27_AliasBound ==
    \A k \in Parsed :
        (/\ YieldedCommand(k)
         /\ yielded[k][2][1].command \in {"AddTextThesis", "AddRelationThesis"}
         /\ command_first_line_captures(Paragraphs[k][1]) # None)
        => LET token == command_first_line_captures(Paragraphs[k][1])[1][2] IN
           /\ yielded[k][2][1].alias = Some(token)
           /\ k = Len(yielded) =>
                /\ token \in DOMAIN iterator.aliases
                /\ yielded[k][2][1].command = "AddTextThesis" =>
                        iterator.aliases[token] =
                            xxh3_128(sources, concat(yielded[k][2][1].text))

\* C28: a paragraph whose first line is only the operation character, one of
\* '+', '-', '#' and '^', and whose other lines are right for the operation
\* gives a command, and the command has no alias.
C28_AliasOptional ==
    \A k \in Parsed :
        LET paragraph == Paragraphs[k] IN
        (/\ Len(paragraph[1]) = 1
         /\ paragraph[1][1] \in OperationCharacters
         /\ PayloadOfIds(paragraph)
         /\ Len(paragraph) = (IF paragraph[1][1] \in {"+", "-"} THEN 2 ELSE 3))
        => /\ YieldedCommand(k)
           /\ "alias" \in DOMAIN yielded[k][2][1] => yielded[k][2][1].alias = None

\* C29: when the iterator fails, it fails on the first paragraph that did
\* not give a command, after the commands of the paragraphs before it, and
\* the error names the number of that paragraph and its text.
C29_FailFast ==
    \A k \in 1..Len(yielded) :
        yielded[k][1] = "Err" =>
            /\ k \in Parsed
            /\ \A j \in 1..(k - 1) : YieldedCommand(j)
            /\ Len(yielded[k]) = 4
            /\ yielded[k][3] = k
            /\ yielded[k][4] = Paragraphs[k]

\* a paragraph with a value that is not valid in it: the text of an add text
\* paragraph, the kind of an add relation paragraph, the tag of a tag
\* paragraph
InvalidValue(paragraph) ==
    /\ command_first_line_captures(paragraph[1]) # None
    /\ LET operation == command_first_line_captures(paragraph[1])[1][1][1] IN
       \/ operation = "+" /\ Len(paragraph) = 2 /\ ~commands_Text_validated(paragraph[2])
       \/ operation = "+" /\ Len(paragraph) = 4 /\ ~RelationKind_validated(paragraph[3])
       \/ operation \in {"#", "^"} /\ Len(paragraph) = 3 /\ ~Tag_validated(paragraph[3])

\* C30: the alias, the text, the relation kind and the tag of every command
\* the iterator has yielded are valid, and a paragraph with a value that is
\* not valid gives an error, not a command.
C30_YieldedValid ==
    \A k \in Parsed :
        /\ YieldedCommand(k) =>
            LET command == yielded[k][2][1] IN
            /\ ("alias" \in DOMAIN command /\ command.alias # None) =>
                    commands_Alias_validated(command.alias[1])
            /\ "text" \in DOMAIN command => commands_Text_validated(command.text)
            /\ "kind" \in DOMAIN command => RelationKind_validated(command.kind)
            /\ "tag" \in DOMAIN command => Tag_validated(command.tag)
        /\ InvalidValue(Paragraphs[k]) => yielded[k][1] = "Err"

\* the first paragraph has given an add text command and the second, a tag
\* paragraph whose tag is not a word, has given the error of validation
C30_Witness ==
    /\ Len(yielded) = 2
    /\ Len(Paragraphs) = 2
    /\ YieldedCommand(1)
    /\ yielded[1][2][1].command = "AddTextThesis"
    /\ Paragraphs[2] = <<<<"#", " ", "a">>, <<"a">>, <<"+">>>>
    /\ yielded[2] = ErrInvalidCommand(1, Paragraphs[2])

(***************************************************************************)
(* Claims about the order of the checks of insert_thesis.                  *)
(***************************************************************************)
\* C38: insert_thesis of a relation reports the first of these that holds:
\* the id is in the chest already, the kind is not supported, `from` is not
\* stored, `to` is not stored; it writes the object when none holds and
\* leaves the chest as it was when it reports an error.
C38_CheckOrder ==
    \A thesis \in RelationTheses :
        LET relation == thesis.content.Relation
            thesis_id == Thesis_id(sources, thesis)
            r == insert_thesis(sources, chest, thesis)
        IN  /\ r.result =
                  IF thesis_id \in DOMAIN chest THEN ErrDuplicate
                  ELSE IF relation.kind \notin supported_relations_kinds
                  THEN ErrUnsupportedKind
                  ELSE IF relation.from \notin DOMAIN chest THEN ErrMissing(relation.from)
                  ELSE IF relation.to \notin DOMAIN chest THEN ErrMissing(relation.to)
                  ELSE Ok
            /\ r.result # Ok => r.chest = chest
            /\ r.result = Ok =>
                  /\ DOMAIN r.chest = DOMAIN chest \cup {thesis_id}
                  /\ r.chest[thesis_id] = to_value(thesis)
                  /\ \A id \in DOMAIN chest : r.chest[id] = chest[id]

\* insert_thesis has refused, as a duplicate, a relation that is stored and
\* whose `from` is stored no more
C38_Witness ==
    /\ last.op = "insert_thesis"
    /\ last.result = ErrDuplicate
    /\ last.id \in DOMAIN chest
    /\ IsRelation(chest[last.id].content)
    /\ chest[last.id].content.Relation.from \notin DOMAIN chest

(***************************************************************************)
(* Claims about what remove_thesis deletes.                                *)
(***************************************************************************)
\* C35: the ids of the relations that remove_thesis gathers for a stored
\* thesis, from the lookup by `from` and the lookup by `to`, have no id
\* twice, so each relation touching the thesis is deleted once.
C35_RelationsOnce ==
    \A thesis_id \in DOMAIN chest :
        LET relations_ids == relations_ids_of(remove_object(chest, thesis_id), thesis_id) IN
        \A i, j \in 1..Len(relations_ids) :
            i # j => relations_ids[i] # relations_ids[j]

RECURSIVE ReferrersOf(_, _)
\* the stored theses that reference a thesis of S, directly or through a
\* chain of references, and S itself
ReferrersOf(c, S) ==
    LET more == S \cup {x \in DOMAIN c : PointsAt(c[x]) \cap S # {}} IN
    IF more = S THEN S ELSE ReferrersOf(c, more)

\* C36: remove_thesis(id) removes no thesis but id and the theses that
\* reference id directly or through a chain of references, and every thesis
\* it leaves is stored with the alias, the content and the tags it had.
C36_RemoveFrame ==
    [][last'.op = "remove_thesis" =>
          /\ DOMAIN chest' \subseteq DOMAIN chest
          /\ DOMAIN chest \ DOMAIN chest' \subseteq ReferrersOf(chest, {last'.id})
          /\ \A x \in DOMAIN chest' : chest'[x] = chest[x]]_vars

\* a remove_thesis has cascaded and has left a thesis with an alias stored
C36_Witness ==
    /\ last.op = "remove_thesis"
    /\ last.calls >= 2
    /\ last.id \notin DOMAIN chest
    /\ \E x \in DOMAIN chest : chest[x].alias = JsonString("a")

(***************************************************************************)
(* Claims about what the alias and tag mutations leave alone.              *)
(***************************************************************************)
\* C37: tag_thesis and untag_thesis of a stored thesis change nothing but
\* the tags of that thesis, and set_alias of a stored thesis changes nothing
\* but its alias: the ids stored, the content, the other of the two fields
\* and every other stored thesis stay as they were.
C37_MutationFrame ==
    [][(last'.op \in {"tag_thesis", "untag_thesis", "set_alias"}
            /\ last'.id \in DOMAIN chest) =>
          /\ DOMAIN chest' = DOMAIN chest
          /\ \A x \in DOMAIN chest \ {last'.id} : chest'[x] = chest[x]
          /\ chest'[last'.id].content = chest[last'.id].content
          /\ last'.op = "set_alias" => chest'[last'.id].tags = chest[last'.id].tags
          /\ last'.op # "set_alias" => chest'[last'.id].alias = chest[last'.id].alias]_vars

\* set_alias has given a tagged thesis the alias "b" while the other stored
\* thesis has the alias "a" and tags of its own
C37_Witness ==
    /\ last.op = "set_alias"
    /\ last.alias = Some("b")
    /\ last.id \in DOMAIN chest
    /\ chest[last.id].tags # <<>>
    /\ chest[last.id].alias = JsonString("b")
    /\ \E x \in DOMAIN chest \ {last.id} :
            chest[x].alias = JsonString("a") /\ chest[x].tags # <<>>

(***************************************************************************)
(* Claims about the ids of parsed texts.                                   *)
(***************************************************************************)
\* C34: a Text that Text::new returns and any other Text that Text::new
\* returns for an input, against the same store and batch, give different
\* byte strings to the hash when they differ in their references, their
\* raw_text_parts or their start_with_reference.
C34_ParsedTextsApart ==
    (TextNewOk /\ ":" \notin Range(input)) =>
        \A other \in TextSources :
            LET r == Text_new(other, known_aliases, chest) IN
            (r[1] = "Ok" /\ r[2] # last.result[2]) =>
                source_of([Text |-> r[2]]) # source_of([Text |-> last.result[2]])

(***************************************************************************)
(* The graph generator (graph_generator.rs).  The stream of theses is a    *)
(* sequence of results, <<"Ok", thesis>> or an error of the stream.  The   *)
(* texts of the model are one word and its aliases one character.          *)
(***************************************************************************)
ErrStream == <<"Err", "theses_iterator">>

\* GraphGenerator::wrap of a text of one word
wrap(text, wrap_width) == IF wrap_width = 0 THEN "" ELSE text

\* html_escape::encode_text of an alias of one character
encode_text(alias) ==
    IF alias = "<" THEN "&lt;"
    ELSE IF alias = ">" THEN "&gt;"
    ELSE IF alias = "&" THEN "&amp;"
    ELSE alias

\* Thesis::references: the references of a text, the two ends of a relation
Thesis_references(thesis) ==
    IF IsText(thesis.content)
    THEN thesis.content.Text.references
    ELSE <<thesis.content.Relation.from, thesis.content.Relation.to>>

\* the entry of a thesis: the definition of its node and its arrows
thesis_entry(known, thesis, config) ==
    LET id_string == to_base64(Thesis_id(known, thesis))
        node_header_text == IF thesis.alias # None
                            THEN encode_text(thesis.alias[1])
                            ELSE id_string
    IN  IF IsText(thesis.content)
        THEN LET node_body_text == wrap(composed(thesis.content.Text), config.wrap_width)
                 node_header == "<TR><TD BORDER=\"1\" SIDES=\"b\">" \o node_header_text
                                    \o "</TD></TR>"
                 node_label == "<TABLE BORDER=\"2\" CELLSPACING=\"0\" CELLPADDING=\"8\">"
                                   \o node_header \o "<TR><TD BORDER=\"0\">"
                                   \o node_body_text \o "</TD></TR></TABLE>"
                 arrows == [i \in 1..Len(Thesis_references(thesis)) |->
                              "\n\t\"" \o id_string \o "\" -> \""
                                  \o to_base64(Thesis_references(thesis)[i])
                                  \o "\" [arrowhead=none, color=\"grey\" style=dotted];"]
             IN  "\n\t\"" \o id_string \o "\" [label=<" \o node_label
                     \o ">, shape=plaintext];" \o concat(arrows)
        ELSE LET relation == thesis.content.Relation
                 node_label == "<TABLE CELLSPACING=\"0\" STYLE=\"dashed\"><TR>"
                                   \o "<TD SIDES=\"b\" STYLE=\"dashed\">" \o node_header_text
                                   \o "</TD></TR><TR><TD BORDER=\"0\">" \o relation.kind
                                   \o "</TD></TR></TABLE>"
             IN  "\n\t\"" \o id_string \o "\" [label=<" \o node_label
                     \o ">, shape=plaintext];\n\t\"" \o to_base64(relation.from)
                     \o "\" -> \"" \o id_string \o "\" [dir=back, arrowtail=tee];\n\t\""
                     \o id_string \o "\" -> \"" \o to_base64(relation.to) \o "\";"

\* GraphGenerator::new
GraphGenerator_new(config, theses_iterator) ==
    [config |-> config, theses_iterator |-> theses_iterator, stage |-> "BeforeFirstLine"]

\* the end of the stream that leaves the stage as it is
end_of_theses_in_the_middle(generator, known) ==
    [result |-> OkOf(Some("\n}")), generator |-> generator, sources |-> known]

\* the arm of Stage::Middle when the stream has no more theses
end_of_theses(generator, known) ==
    [result |-> OkOf(Some("\n}")),
     generator |-> [generator EXCEPT !.stage = "AfterLastLine"],
     sources |-> known]

\* GraphGenerator::next: the result, the generator after the call and the
\* byte strings hashed by then
GraphGenerator_next(generator, known) ==
    IF generator.stage = "BeforeFirstLine"
    THEN [result |-> OkOf(Some("digraph sweater {")),
          generator |-> [generator EXCEPT !.stage = "Middle"],
          sources |-> known]
    ELSE IF generator.stage = "Middle"
    THEN IF generator.theses_iterator = <<>>
         THEN end_of_theses(generator, known)
         ELSE LET item == Head(generator.theses_iterator)
                  advanced == [generator EXCEPT !.theses_iterator = Tail(@)]
              IN  IF item[1] = "Err"
                  THEN [result |-> item, generator |-> advanced, sources |-> known]
                  ELSE [result |-> OkOf(Some(thesis_entry(known, item[2], generator.config))),
                        generator |-> advanced,
                        sources |-> hashed(known, source_of(item[2].content))]
    ELSE [result |-> OkOf(None), generator |-> generator, sources |-> known]

(***************************************************************************)
(* A graph generated from a stream of theses.                              *)
(***************************************************************************)
\* the most items of the stream of theses
MaxStream == 3
\* the most calls of next that are followed after the closing line
MaxLaterCalls == 2

\* the items of the streams: the text "a" and the text "a[1]" with and
\* without an alias, a relation, and an error of the stream
StreamItems ==
    {OkOf(thesis) : thesis \in ThesisInputs(TextInputs, {None, Some("<")}, {<<>>})}
        \cup {OkOf([alias |-> None, tags |-> <<>>,
                    content |-> [Relation |-> [from |-> 1, to |-> 2, kind |-> "supports"]]]),
              ErrStream}

InitGraph ==
    /\ sources = <<>>
    /\ chest = <<>>
    /\ last = NoCall
    /\ previously_added_theses = <<>>
    /\ input \in {[config |-> [wrap_width |-> w], theses |-> theses] :
                    w \in {0, 80}, theses \in SeqsUpTo(StreamItems, MaxStream)}
    /\ known_aliases = <<>>
    /\ iterator = GraphGenerator_new(input.config, input.theses)
    /\ yielded = <<>>

\* graph_generator.next()
GraphNext ==
    LET r == GraphGenerator_next(iterator, sources) IN
    /\ Len(yielded) < Len(input.theses) + 2 + MaxLaterCalls
    /\ yielded' = Append(yielded, r.result)
    /\ iterator' = r.generator
    /\ sources' = r.sources
    /\ last' = [NoCall EXCEPT !.op = "next", !.result = r.result]
    /\ UNCHANGED <<chest, previously_added_theses, input, known_aliases>>

SpecGraph == InitGraph /\ [][GraphNext]_vars

(***************************************************************************)
(* Claims about the graph generator.                                       *)
(***************************************************************************)
Stages == <<"BeforeFirstLine", "Middle", "AfterLastLine">>
StageNumber(stage) == CHOOSE n \in 1..3 : Stages[n] = stage

\* the items of the stream that the generator has taken
Taken == Len(input.theses) - Len(iterator.theses_iterator)

\* C39: what next has returned so far is the header line once, when the
\* generator has left BeforeFirstLine; then one entry for each thesis taken
\* from the stream, in the order of the stream (an error of the stream is
\* handed on in its place); then, when the stream has ended, the closing
\* line once and None for every call after it.  The stage never goes back.
C39_GraphLines ==
    /\ [](LET head == IF iterator.stage = "BeforeFirstLine" THEN 0 ELSE 1
              closed == iterator.stage = "AfterLastLine"
          IN  /\ Len(yielded) >= head + Taken + (IF closed THEN 1 ELSE 0)
              /\ ~closed => Len(yielded) = head + Taken
              /\ closed => Taken = Len(input.theses)
              /\ head = 0 => yielded = <<>>
              /\ head = 1 => yielded[1] = OkOf(Some("digraph sweater {"))
              /\ \A i \in 1..Taken :
                    yielded[head + i] =
                        IF input.theses[i][1] = "Err"
                        THEN input.theses[i]
                        ELSE OkOf(Some(thesis_entry(sources, input.theses[i][2],
                                                    input.config)))
              /\ closed => yielded[head + Taken + 1] = OkOf(Some("\n}"))
              /\ \A k \in (head + Taken + 2)..Len(yielded) : yielded[k] = OkOf(None))
    /\ [][StageNumber(iterator'.stage) >= StageNumber(iterator.stage)]_vars

\* the generator has given the header, the entries of a text with an alias
\* and of a text that references a thesis, the closing line and then None
C39_Witness ==
    /\ Len(input.theses) = 2
    /\ input.theses[1][1] = "Ok"
    /\ input.theses[1][2].alias = Some("<")
    /\ input.theses[2][1] = "Ok"
    /\ IsText(input.theses[2][2].content)
    /\ input.theses[2][2].content.Text.references = <<1>>
    /\ iterator.stage = "AfterLastLine"
    /\ Len(yielded) = 5
    /\ yielded[4] = OkOf(Some("\n}"))
    /\ yielded[5] = OkOf(None)

====
